---- MODULE Spec2Model ----
(***************************************************************************)
(* Model of youtube_transcript_supadata.py: a batch client that reads      *)
(* (video_id, url, description) rows from a CSV file, fetches a transcript *)
(* per pending URL through an external API, writes one text file per video *)
(* and appends every processed URL to a completed or a failed ledger.      *)
(*                                                                         *)
(* Strings are sequences of one-character strings, so that str.strip and   *)
(* str.split are computed on the characters.  The file system, the         *)
(* environment variable holding the credential and the API are the         *)
(* environment: their outcomes are chosen nondeterministically.  The        *)
(* --help branch of main(), which prints the usage and exits, is left out. *)
(***************************************************************************)
EXTENDS Integers, Sequences, FiniteSets, TLC

VARIABLES
    csvExists,        \* os.path.exists("youtube_url.csv")
    csvRows,          \* rows csv.reader yields for youtube_url.csv
    csvErrAt,         \* row index at which reading the CSV raises; 0 = never
    completedFile,    \* lines of youtube_url_completed.txt
    failedFile,       \* lines of youtube_url_failed.txt
    files,            \* transcript files: <<dir, video_id>> -> sequence of lines
    pc,               \* position of the running process
    apiKey,           \* SUPADATA_API_KEY is set for this process
    language,         \* --language of this process
    transcripts_dir,  \* directory returned by the last ensure_transcripts_folder
    urls,             \* result of read_csv_urls
    pending_urls,     \* records of urls in neither loaded ledger set
    i,                \* enumerate index of the driver loop
    transcript,       \* API response held between the fetch and the write
    result,           \* return value of the current get_youtube_transcript
    successful,       \* driver counter
    failed,           \* driver counter
    exitCode,         \* -1 while running, else the process exit status
    endReason,        \* why the last process ended
    runs,             \* processes started so far
    prevComplete,     \* the previous process worked through all its pending records
    ledgersRead,      \* this process read both ledger files without an exception
    apiCalls,         \* URLs passed to client.youtube.transcript by this process
    pauses,           \* time.sleep(5) calls of this process
    runC0,            \* Len(completedFile) when this process started
    runF0,            \* Len(failedFile) when this process started
    invC0,            \* Len(completedFile) when the current invocation started
    invF0,            \* Len(failedFile) when the current invocation started
    itemErr,          \* which except branch the current invocation took
    appendRes,        \* outcome of the ledger append of the current invocation
    okItems           \* loop indexes whose URL this process appended to completed

vars == <<csvExists, csvRows, csvErrAt, completedFile, failedFile, files, pc,
          apiKey, language, transcripts_dir, urls, pending_urls, i, transcript,
          result, successful, failed, exitCode, endReason, runs, prevComplete,
          ledgersRead, apiCalls, pauses, runC0, runF0, invC0, invF0, itemErr, appendRes,
          okItems>>

-----------------------------------------------------------------------------
(* Bounds *)

MaxRows == 2
MaxRuns == 2
MaxCols == 4

-----------------------------------------------------------------------------
(* Strings *)

Quote == "\""
Tab == "\t"
Whitespace == {" ", "\t"}

RECURSIVE LStrip(_, _)
LStrip(s, chars) ==
    IF s = <<>> \/ s[1] \notin chars THEN s ELSE LStrip(Tail(s), chars)

RECURSIVE RStrip(_, _)
RStrip(s, chars) ==
    IF s = <<>> \/ s[Len(s)] \notin chars THEN s
    ELSE RStrip(SubSeq(s, 1, Len(s) - 1), chars)

\* str.strip(chars): remove every leading and trailing character of chars
Strip(s, chars) == RStrip(LStrip(s, chars), chars)

\* str.split(sep)[0]: the text before the first sep
RECURSIVE SplitFirst(_, _)
SplitFirst(s, sep) ==
    IF s = <<>> \/ s[1] = sep THEN <<>>
    ELSE <<s[1]>> \o SplitFirst(Tail(s), sep)

-----------------------------------------------------------------------------
(* Inputs of the driver *)

\* CSV rows as csv.reader yields them.  A file may hold the same row twice
\* (a duplicate URL); the second row shares its video_id with the first, the
\* third has a whitespace-padded URL, the fourth an empty URL and no description
DriverRows ==
    { << <<"p">>, <<"u">>, <<"d">> >>,
      << <<"p">>, <<"v">>, <<"e">> >>,
      << <<"q">>, <<" ", "u">>, <<"d">> >>,
      << <<"q">>, <<>> >> }

Languages == { <<"en">> }

\* what client.youtube.transcript returns: an object with .content, or text
Responses == { [hasContent |-> TRUE, value |-> <<"T">>],
               [hasContent |-> FALSE, value |-> <<"T">>] }

\* fields of the CSV loader's inputs: plain, wrapped in literal quotes, a quote
\* inside, only quotes, empty
CsvField(b, k) ==
    CASE b = 1 -> <<"a", "b">>
      [] b = 2 /\ k = 1 -> <<Quote, "a", Quote>>
      [] b = 2 /\ k = 2 -> <<Quote, Quote, "b">>
      [] b = 2 /\ k = 3 -> <<"c", Quote>>
      [] b = 3 /\ k = 1 -> <<"a", Quote, "b">>
      [] b = 3 /\ k = 2 -> <<Quote>>
      [] b = 3 /\ k = 3 -> <<>>
      [] OTHER -> <<"x">>

\* rows of zero to MaxCols columns
CsvRowPool == { [k \in 1..n |-> CsvField(b, k)] : b \in 1..3, n \in 0..MaxCols }

SeqsUpTo(S, n) == UNION { [1..k -> S] : k \in 0..n }

-----------------------------------------------------------------------------
(* Pure functions of the program *)

\* mutant: the trailing quotes are kept (lstrip for strip)
CsvRecordLeadingOnly(row) ==
    [video_id |-> LStrip(row[1], {Quote}),
     url |-> LStrip(row[2], {Quote}),
     description |-> IF Len(row) > 2 THEN LStrip(row[3], {Quote}) ELSE <<>>]

\* read_csv_urls, the loop body: one record per row with at least two columns
CsvRecord(row) ==
    [video_id |-> Strip(row[1], {Quote}),
     url |-> Strip(row[2], {Quote}),
     description |-> IF Len(row) > 2 THEN Strip(row[3], {Quote}) ELSE <<>>]

RECURSIVE CsvRecords(_)
CsvRecords(rows) ==
    IF rows = <<>> THEN <<>>
    ELSE (IF Len(rows[1]) >= 2 THEN <<CsvRecord(rows[1])>> ELSE <<>>)
         \o CsvRecords(Tail(rows))

\* the rows the reader yields before it raises (errAt = 0: it never raises)
RowsRead(rows, errAt) ==
    IF errAt = 0 THEN rows ELSE SubSeq(rows, 1, errAt - 1)

\* read_csv_urls: a missing file gives [], an exception gives the records so far
read_csv_urls(exists, rows, errAt) ==
    IF ~exists THEN <<>> ELSE CsvRecords(RowsRead(rows, errAt))

\* load_completed_urls: the non-empty stripped lines, read up to an exception
load_completed_urls(lines, nread) ==
    { Strip(lines[k], Whitespace) : k \in 1..nread } \ { <<>> }

\* load_failed_urls: the non-empty first tab field of each stripped line
load_failed_urls(lines, nread) ==
    { SplitFirst(Strip(lines[k], Whitespace), Tab) : k \in 1..nread } \ { <<>> }

\* the pending filter of process_csv_urls
PendingUrls(records, completed_urls, failed_urls) ==
    SelectSeq(records,
              LAMBDA r : r.url \notin completed_urls /\ r.url \notin failed_urls)

\* save_completed_url: append "url\n"; an exception is caught and only printed
save_completed_url(lines, url, ok) ==
    IF ok THEN Append(lines, url) ELSE lines

\* save_failed_url: append "url\treason\n"; an exception is caught and printed
save_failed_url(lines, url, reason, ok) ==
    IF ok THEN Append(lines, url \o <<Tab>> \o reason) ELSE lines

\* ensure_transcripts_folder: the primary directory, else the fallback once,
\* else the exception is re-raised
ensure_transcripts_folder(primaryOk, fallbackOk) ==
    IF primaryOk THEN "transcripts"
    ELSE IF fallbackOk THEN "transcripts_fallback"
    ELSE "raise"

SeparatorWidth == 50

\* transcript.content if hasattr(transcript, 'content') else str(transcript)
TranscriptText(t) == t.value

\* mutant: the URL and the description lines change places
TranscriptFileSwapped(video_id, url, description, lang, t) ==
    << <<"Video ID: ">> \o video_id,
       <<"Description: ">> \o description,
       <<"URL: ">> \o url,
       <<"Language: ">> \o lang,
       [k \in 1..SeparatorWidth |-> "-"],
       <<>>,
       TranscriptText(t) >>

\* the lines get_youtube_transcript writes to <video_id>.txt
TranscriptFile(video_id, url, description, lang, t) ==
    << <<"Video ID: ">> \o video_id,
       <<"URL: ">> \o url,
       <<"Description: ">> \o description,
       <<"Language: ">> \o lang,
       [k \in 1..SeparatorWidth |-> "-"],
       <<>>,
       TranscriptText(t) >>

\* the error_msg prefixes of get_youtube_transcript
Reason(kind) ==
    CASE kind = "file" -> <<"File save error: ">>
      [] kind = "api" -> <<"Supadata API error: ">>
      [] kind = "fetch" -> <<"Transcript fetch error: ">>
      [] kind = "dir" -> <<"Unexpected error: ">>

\* mutant: a failed item ends the loop
AfterItemStopOnFailure(idx, n) ==
    IF idx < n /\ result THEN "pause" ELSE "summary"

\* the driver's step after an item: pause unless it was the last one
AfterItem(idx, n) == IF idx < n THEN "pause" ELSE "summary"

-----------------------------------------------------------------------------
(* State of the driver *)

NoTranscript == [hasContent |-> FALSE, value |-> <<>>]

Running == pc \notin {"idle", "ended", "csv_init", "csv_done"}

Rec == pending_urls[i]

Path(dir, video_id) == <<dir, video_id>>

WriteTo(fs, path, content) ==
    [p \in DOMAIN fs \cup {path} |-> IF p = path THEN content ELSE fs[p]]

\* no process has run yet: empty ledgers, no transcript file
Fresh ==
    /\ completedFile = <<>>
    /\ failedFile = <<>>
    /\ files = <<>>
    /\ apiKey = FALSE
    /\ language = <<"en">>
    /\ transcripts_dir = "none"
    /\ urls = <<>>
    /\ pending_urls = <<>>
    /\ i = 0
    /\ transcript = NoTranscript
    /\ result = FALSE
    /\ successful = 0
    /\ failed = 0
    /\ exitCode = -1
    /\ endReason = "none"
    /\ runs = 0
    /\ prevComplete = FALSE
    /\ ledgersRead = FALSE
    /\ apiCalls = <<>>
    /\ pauses = 0
    /\ runC0 = 0
    /\ runF0 = 0
    /\ invC0 = 0
    /\ invF0 = 0
    /\ itemErr = "none"
    /\ appendRes = "none"
    /\ okItems = {}

\* A CSV read error leaves the driver with the records of a shorter file, and
\* every shorter file is an input here, so the driver's CSV is read to its end.
Init ==
    /\ csvExists \in BOOLEAN
    /\ csvRows \in SeqsUpTo(DriverRows, MaxRows)
    /\ csvExists = FALSE => csvRows = <<>>
    /\ csvErrAt = 0
    /\ pc = "idle"
    /\ Fresh

Input == <<csvExists, csvRows, csvErrAt>>
Ledgers == <<completedFile, failedFile>>
Counters == <<successful, failed>>
RunHist == <<runs, prevComplete, runC0, runF0>>
InvHist == <<invC0, invF0, itemErr, appendRes>>

\* the process ends with the given status
End(code, why) ==
    /\ pc' = "ended"
    /\ exitCode' = code
    /\ endReason' = why

\* get_youtube_transcript is called for pending_urls[idx]
Call(idx) ==
    /\ pc' = "item_env"
    /\ i' = idx
    /\ invC0' = Len(completedFile)
    /\ invF0' = Len(failedFile)
    /\ itemErr' = "none"
    /\ appendRes' = "none"
    /\ transcript' = NoTranscript
    /\ result' = FALSE

\* an except branch of get_youtube_transcript: save_failed_url, return False
Fail(kind, appendOk) ==
    /\ failedFile' = save_failed_url(failedFile, Rec.url, Reason(kind), appendOk)
    /\ itemErr' = kind
    /\ appendRes' = IF appendOk THEN "ok" ELSE "ioerror"
    /\ result' = FALSE
    /\ pc' = "item_end"

\* main(): a new process starts; sys.argv gives the language
StartRun ==
    /\ pc \in {"idle", "ended"}
    /\ runs < MaxRuns
    /\ runs' = runs + 1
    /\ prevComplete' = (pc = "ended" /\ endReason \in {"summary", "no_pending", "no_urls"})
    /\ ledgersRead' = FALSE
    /\ apiKey' \in BOOLEAN
    /\ language' \in Languages
    /\ pc' = "main_ensure"
    /\ exitCode' = -1
    /\ endReason' = "none"
    /\ transcripts_dir' = "none"
    /\ urls' = <<>>
    /\ pending_urls' = <<>>
    /\ i' = 0
    /\ transcript' = NoTranscript
    /\ result' = FALSE
    /\ successful' = 0
    /\ failed' = 0
    /\ apiCalls' = <<>>
    /\ pauses' = 0
    /\ runC0' = Len(completedFile)
    /\ runF0' = Len(failedFile)
    /\ invC0' = Len(completedFile)
    /\ invF0' = Len(failedFile)
    /\ itemErr' = "none"
    /\ appendRes' = "none"
    /\ okItems' = {}
    /\ UNCHANGED <<Input, Ledgers, files>>

\* main(): ensure_transcripts_folder, sys.exit(1) when it raises
MainEnsure ==
    /\ pc = "main_ensure"
    /\ \E primaryOk, fallbackOk \in BOOLEAN :
         LET dir == ensure_transcripts_folder(primaryOk, fallbackOk) IN
         IF dir = "raise"
         THEN End(1, "dir_main") /\ UNCHANGED transcripts_dir
         ELSE /\ pc' = "proc_ensure"
              /\ UNCHANGED <<exitCode, endReason, transcripts_dir>>
    /\ UNCHANGED <<Input, Ledgers, files, apiKey, language, urls,
                   pending_urls, i, transcript, result, Counters, RunHist,
                   ledgersRead, apiCalls, pauses, InvHist, okItems>>

\* process_csv_urls: ensure_transcripts_folder, return when it raises
ProcEnsure ==
    /\ pc = "proc_ensure"
    /\ \E primaryOk, fallbackOk \in BOOLEAN :
         LET dir == ensure_transcripts_folder(primaryOk, fallbackOk) IN
         IF dir = "raise"
         THEN End(0, "dir_proc") /\ UNCHANGED transcripts_dir
         ELSE /\ pc' = "load"
              /\ transcripts_dir' = dir
              /\ UNCHANGED <<exitCode, endReason>>
    /\ UNCHANGED <<Input, Ledgers, files, apiKey, language, urls,
                   pending_urls, i, transcript, result, Counters, RunHist,
                   ledgersRead, apiCalls, pauses, InvHist, okItems>>

\* process_csv_urls: read the CSV, load both ledgers, filter the pending records
LoadInputs ==
    /\ pc = "load"
    /\ LET records == read_csv_urls(csvExists, csvRows, csvErrAt) IN
       /\ urls' = records
       /\ IF records = <<>>
          THEN /\ End(0, "no_urls")
               /\ UNCHANGED <<pending_urls, i, transcript, result, InvHist,
                              ledgersRead>>
          ELSE \E nc \in {0, Len(completedFile)}, nf \in {0, Len(failedFile)} :
                 LET pend == PendingUrls(records,
                                         load_completed_urls(completedFile, nc),
                                         load_failed_urls(failedFile, nf)) IN
                 /\ pending_urls' = pend
                 /\ ledgersRead' = (nc = Len(completedFile) /\ nf = Len(failedFile))
                 /\ IF pend = <<>>
                    THEN /\ End(0, "no_pending")
                         /\ UNCHANGED <<i, transcript, result, InvHist>>
                    ELSE /\ Call(1)
                         /\ UNCHANGED <<exitCode, endReason>>
    /\ UNCHANGED <<Input, Ledgers, files, apiKey, language, transcripts_dir,
                   Counters, RunHist, apiCalls, pauses, okItems>>

\* get_youtube_transcript: load_environment, sys.exit(1) without the key
LoadEnvironment ==
    /\ pc = "item_env"
    /\ IF apiKey
       THEN pc' = "item_ensure" /\ UNCHANGED <<exitCode, endReason>>
       ELSE End(1, "no_key")
    /\ UNCHANGED <<Input, Ledgers, files, apiKey, language, transcripts_dir,
                   urls, pending_urls, i, transcript, result, Counters,
                   RunHist, ledgersRead, apiCalls, pauses, InvHist, okItems>>

\* get_youtube_transcript: ensure_transcripts_folder inside the outer try
ItemEnsure ==
    /\ pc = "item_ensure"
    /\ \E primaryOk, fallbackOk \in BOOLEAN :
         LET dir == ensure_transcripts_folder(primaryOk, fallbackOk) IN
         IF dir = "raise"
         THEN /\ \E appendOk \in BOOLEAN : Fail("dir", appendOk)
              /\ UNCHANGED transcripts_dir
         ELSE /\ transcripts_dir' = dir
              /\ pc' = "item_api"
              /\ UNCHANGED <<failedFile, itemErr, appendRes, result>>
    /\ UNCHANGED <<Input, completedFile, files, apiKey, language, urls,
                   pending_urls, i, transcript, Counters, RunHist,
                   ledgersRead, apiCalls, pauses, invC0, invF0, okItems,
                   exitCode, endReason>>

\* get_youtube_transcript: client.youtube.transcript(url, lang, text=True)
FetchTranscript ==
    /\ pc = "item_api"
    /\ apiCalls' = Append(apiCalls, Rec.url)
    /\ \/ \E t \in Responses :
            /\ transcript' = t
            /\ pc' = "item_write"
            /\ UNCHANGED <<failedFile, itemErr, appendRes, result>>
       \/ \E kind \in {"api", "fetch"}, appendOk \in BOOLEAN :
            /\ Fail(kind, appendOk)
            /\ UNCHANGED transcript
    /\ UNCHANGED <<Input, completedFile, files, apiKey, language,
                   transcripts_dir, urls, pending_urls, i, Counters, RunHist,
                   ledgersRead, pauses, invC0, invF0, okItems, exitCode,
                   endReason>>

\* get_youtube_transcript: open(filename, 'w') and the six writes
WriteFile ==
    /\ pc = "item_write"
    /\ LET path == Path(transcripts_dir, Rec.video_id) IN
       \/ /\ files' = WriteTo(files, path,
                              TranscriptFile(Rec.video_id, Rec.url,
                                             Rec.description, language, transcript))
          /\ pc' = "item_save"
          /\ transcript' = NoTranscript
          /\ UNCHANGED <<failedFile, itemErr, appendRes, result>>
       \/ \E opened, appendOk \in BOOLEAN :
            /\ files' = IF opened THEN WriteTo(files, path, <<>>) ELSE files
            /\ Fail("file", appendOk)
            /\ transcript' = NoTranscript
    /\ UNCHANGED <<Input, completedFile, apiKey, language, transcripts_dir,
                   urls, pending_urls, i, Counters, RunHist, ledgersRead,
                   apiCalls, pauses, invC0, invF0, okItems, exitCode,
                   endReason>>

\* get_youtube_transcript: save_completed_url(url), return True
SaveCompleted ==
    /\ pc = "item_save"
    /\ \E appendOk \in BOOLEAN :
         /\ completedFile' = save_completed_url(completedFile, Rec.url, appendOk)
         /\ appendRes' = IF appendOk THEN "ok" ELSE "ioerror"
         /\ okItems' = IF appendOk THEN okItems \cup {i} ELSE okItems
    /\ result' = TRUE
    /\ pc' = "item_end"
    /\ UNCHANGED <<Input, failedFile, files, apiKey, language,
                   transcripts_dir, urls, pending_urls, i, transcript,
                   Counters, RunHist, ledgersRead, apiCalls, pauses, invC0,
                   invF0, itemErr, exitCode, endReason>>

\* process_csv_urls: count the returned value, then pause or leave the loop
Count ==
    /\ pc = "item_end"
    /\ successful' = IF result THEN successful + 1 ELSE successful
    /\ failed' = IF result THEN failed ELSE failed + 1
    /\ pc' = AfterItem(i, Len(pending_urls))
    /\ UNCHANGED <<Input, Ledgers, files, apiKey, language, transcripts_dir,
                   urls, pending_urls, i, transcript, result, RunHist,
                   ledgersRead, apiCalls, pauses, InvHist, okItems, exitCode,
                   endReason>>

\* process_csv_urls: time.sleep(5), then the next invocation
Pause ==
    /\ pc = "pause"
    /\ pauses' = pauses + 1
    /\ Call(i + 1)
    /\ UNCHANGED <<Input, Ledgers, files, apiKey, language, transcripts_dir,
                   urls, pending_urls, Counters, RunHist, ledgersRead,
                   apiCalls, okItems, exitCode, endReason>>

\* process_csv_urls: the summary; main returns
Summary ==
    /\ pc = "summary"
    /\ End(0, "summary")
    /\ UNCHANGED <<Input, Ledgers, files, apiKey, language, transcripts_dir,
                   urls, pending_urls, i, transcript, result, Counters,
                   RunHist, ledgersRead, apiCalls, pauses, InvHist, okItems>>

\* a process interrupt (KeyboardInterrupt is no Exception): the process stops
\* where it is; a file being written is left truncated
Interrupt ==
    /\ Running
    /\ End(130, "killed")
    /\ files' = IF pc = "item_write"
                THEN WriteTo(files, Path(transcripts_dir, Rec.video_id), <<>>)
                ELSE files
    /\ transcript' = NoTranscript
    /\ UNCHANGED <<Input, Ledgers, apiKey, language, transcripts_dir, urls,
                   pending_urls, i, result, Counters, RunHist, ledgersRead,
                   apiCalls, pauses, InvHist, okItems>>

Next ==
    \/ StartRun
    \/ MainEnsure
    \/ ProcEnsure
    \/ LoadInputs
    \/ LoadEnvironment
    \/ ItemEnsure
    \/ FetchTranscript
    \/ WriteFile
    \/ SaveCompleted
    \/ Count
    \/ Pause
    \/ Summary
    \/ Interrupt

\* any number of processes up to MaxRuns, one after the other, on the same CSV
Spec == Init /\ [][Next]_vars

\* the first process on a fresh working directory
FirstRun == StartRun /\ runs = 0

NextRun ==
    \/ FirstRun
    \/ MainEnsure
    \/ ProcEnsure
    \/ LoadInputs
    \/ LoadEnvironment
    \/ ItemEnsure
    \/ FetchTranscript
    \/ WriteFile
    \/ SaveCompleted
    \/ Count
    \/ Pause
    \/ Summary
    \/ Interrupt

SpecRun == Init /\ [][NextRun]_vars

\* the first process when nobody interrupts it and every blocking call returns
NextLive ==
    \/ FirstRun
    \/ MainEnsure
    \/ ProcEnsure
    \/ LoadInputs
    \/ LoadEnvironment
    \/ ItemEnsure
    \/ FetchTranscript
    \/ WriteFile
    \/ SaveCompleted
    \/ Count
    \/ Pause
    \/ Summary

SpecLive == Init /\ [][NextLive]_vars /\ WF_vars(NextLive)

-----------------------------------------------------------------------------
(* The CSV loader alone *)

InitCsv ==
    /\ csvExists \in BOOLEAN
    /\ csvRows \in SeqsUpTo(CsvRowPool, MaxRows)
    /\ csvExists = FALSE => csvRows = <<>>
    /\ csvErrAt \in 0..Len(csvRows)
    /\ pc = "csv_init"
    /\ Fresh

\* read_csv_urls("youtube_url.csv")
ReadCsv ==
    /\ pc = "csv_init"
    /\ urls' = read_csv_urls(csvExists, csvRows, csvErrAt)
    /\ pc' = "csv_done"
    /\ UNCHANGED <<Input, Ledgers, files, apiKey, language, transcripts_dir,
                   pending_urls, i, transcript, result, Counters, RunHist,
                   ledgersRead, apiCalls, pauses, InvHist, okItems, exitCode,
                   endReason>>

NextCsv == ReadCsv

SpecCsv == InitCsv /\ [][NextCsv]_vars

-----------------------------------------------------------------------------
(* Properties *)

\* lines the current invocation added to each ledger
AddedCompleted == Len(completedFile) - invC0
AddedFailed == Len(failedFile) - invF0

\* the URL field of a failed-ledger line as written: the text before the tab
FailedUrl(line) == SplitFirst(line, Tab)

\* the ledgers as the running process found them
CompletedAtStart == { completedFile[k] : k \in 1..runC0 }
FailedAtStart == { FailedUrl(failedFile[k]) : k \in 1..runF0 }

Separator == [k \in 1..SeparatorWidth |-> "-"]

\* <dir>/<video_id>.txt is written in full with rec's header
HasFile(rec, dir) ==
    LET path == Path(dir, rec.video_id) IN
    /\ path \in DOMAIN files
    /\ Len(files[path]) = 7
    /\ files[path][1] = <<"Video ID: ">> \o rec.video_id
    /\ files[path][2] = <<"URL: ">> \o rec.url
    /\ files[path][3] = <<"Description: ">> \o rec.description
    /\ files[path][4] = <<"Language: ">> \o language
    /\ files[path][5] = Separator

Dirs == {"transcripts", "transcripts_fallback"}

\* C1: every invocation of get_youtube_transcript that returns has added exactly
\* one line, for its URL, to exactly one ledger: to the completed ledger when
\* it returns True, to the failed ledger when it returns False, whatever the
\* outcome of the API call, the file write and the ledger append.
C1_ExactlyOneLedgerLine ==
    pc = "item_end" =>
        /\ AddedCompleted + AddedFailed = 1
        /\ result => AddedCompleted = 1 /\ completedFile[Len(completedFile)] = Rec.url
        /\ ~result => AddedFailed = 1 /\ FailedUrl(failedFile[Len(failedFile)]) = Rec.url

\* C2: no API call of a process is for a URL that was in the completed or the
\* failed ledger when the process started (stated for the non-empty URLs of a
\* process that read both ledger files without an exception).
C2_LedgerUrlsNotRefetched ==
    ledgersRead =>
        \A k \in 1..Len(apiCalls) :
            apiCalls[k] # <<>> =>
                apiCalls[k] \notin CompletedAtStart /\ apiCalls[k] \notin FailedAtStart

\* C3: a process that follows one that worked through all its pending records
\* (same CSV, ledgers untouched in between) has nothing pending: no API call,
\* no ledger line, zero successes and zero failures.
C3_RerunDoesNothing ==
    (prevComplete /\ ledgersRead) =>
        /\ pending_urls = <<>>
        /\ apiCalls = <<>>
        /\ Len(completedFile) = runC0
        /\ Len(failedFile) = runF0
        /\ successful = 0
        /\ failed = 0

\* C4: once the loop runs (credential present), whatever fails for a record -
\* the API call, the file write, the ledger append - the process goes on to every
\* later pending record and reaches its summary with all of them attempted.
C4_FailuresNeverAbort ==
    (pc = "item_ensure" /\ i = 1) ~>
        (/\ pc = "ended"
         /\ endReason = "summary"
         /\ i = Len(pending_urls)
         /\ successful + failed = Len(pending_urls))

C4_Witness ==
    /\ pc = "ended"
    /\ endReason = "summary"
    /\ Len(pending_urls) = 2
    /\ failed = 1
    /\ okItems = {2}

\* C5: a process without the credential ends with exit code 1 at startup,
\* whatever the CSV and the ledgers hold, with no API call made and no ledger
\* line or transcript file written.
C5_NoKeyExitsOne ==
    (pc = "ended" /\ ~apiKey /\ endReason \notin {"killed", "dir_main", "dir_proc"}) =>
        /\ exitCode = 1
        /\ endReason = "no_key"
        /\ apiCalls = <<>>
        /\ Len(completedFile) = runC0
        /\ Len(failedFile) = runF0

\* C6: the directory is ensured before any fetch; when it cannot be created the
\* process ends with nothing fetched and no ledger changed; a directory failure
\* is never recorded as a per-item failure after which the loop continues.
C6_DirFailureIsFatal ==
    /\ apiCalls # <<>> => transcripts_dir \in Dirs
    /\ endReason \in {"dir_main", "dir_proc"} =>
           /\ apiCalls = <<>>
           /\ Len(completedFile) = runC0
           /\ Len(failedFile) = runF0
    /\ ~(pc = "item_end" /\ itemErr = "dir" /\ AddedFailed = 1)

\* C7: the k-th API call of a process is for its k-th pending record, a fetch
\* starts only after the ledger entries of all earlier records were written,
\* and a process that reaches its summary has paused exactly n-1 times.
C7_InOrderWithPauses ==
    /\ \A k \in 1..Len(apiCalls) : apiCalls[k] = pending_urls[k].url
    /\ pc = "item_api" =>
           (Len(completedFile) - runC0) + (Len(failedFile) - runF0) = i - 1
    /\ pc = "summary" => pauses = Len(pending_urls) - 1

\* C8: over any sequence of processes on the same CSV, each possibly
\* interrupted, no URL has more than one line in the two ledgers together
\* (stated for the non-empty URLs).
C8_NoUrlCountedTwice ==
    LET all == completedFile \o [k \in 1..Len(failedFile) |-> FailedUrl(failedFile[k])] IN
    \A a, b \in 1..Len(all) : (a # b /\ all[a] # <<>>) => all[a] # all[b]

\* C9 (original): when a process has ended, every URL it appended to the
\* completed ledger has a transcript file <video_id>.txt whose header lines are
\* that record's video_id, url, description and language, then the separator
\* (stated for a process that reached its summary with every record completed).
C9_FileOfEveryCompletedUrl ==
    (pc = "ended" /\ endReason = "summary" /\ okItems = 1..Len(pending_urls)) =>
        \A k \in okItems : \E dir \in Dirs : HasFile(pending_urls[k], dir)

\* C9 (amended): a URL is appended to the completed ledger only after its
\* transcript file was written in full with that record's header and the
\* separator, and the file keeps that header to the end of the process unless
\* a later record of the process has the same video_id.
C9_CompletedAfterFullWrite ==
    /\ AddedCompleted > 0 =>
           /\ AddedCompleted = 1
           /\ completedFile[Len(completedFile)] = Rec.url
           /\ HasFile(Rec, transcripts_dir)
    /\ pc = "ended" =>
           \A k \in okItems :
               (\A m \in (k + 1)..i : pending_urls[m].video_id # pending_urls[k].video_id)
                   => \E dir \in Dirs : HasFile(pending_urls[k], dir)

C9_Witness ==
    /\ pc = "ended"
    /\ okItems = {1, 2}
    /\ pending_urls[1].video_id = pending_urls[2].video_id
    /\ pending_urls[1].url # pending_urls[2].url

\* r is f without its leading and trailing double quotes
Unquoted(r, f) ==
    \E lo, hi \in 0..Len(f) :
        /\ lo <= hi
        /\ r = SubSeq(f, lo + 1, hi)
        /\ \A k \in 1..lo : f[k] = Quote
        /\ \A k \in (hi + 1)..Len(f) : f[k] = Quote
        /\ r # <<>> => r[1] # Quote /\ r[Len(r)] # Quote

\* C10: read_csv_urls returns one record per row of at least two columns, in
\* file order, each (column 1, column 2, column 3 or "") without surrounding
\* double quotes; shorter rows give no record and do not stop the loading; a
\* missing file gives the empty sequence.  The rows are those the reader yields.
C10_OneRecordPerRow ==
    pc = "csv_done" =>
        IF ~csvExists THEN urls = <<>>
        ELSE LET n == IF csvErrAt = 0 THEN Len(csvRows) ELSE csvErrAt - 1
                 Rank(k) == Cardinality({ m \in 1..k : Len(csvRows[m]) >= 2 })
             IN /\ Len(urls) = Rank(n)
                /\ \A k \in 1..n :
                     Len(csvRows[k]) >= 2 =>
                       /\ Unquoted(urls[Rank(k)].video_id, csvRows[k][1])
                       /\ Unquoted(urls[Rank(k)].url, csvRows[k][2])
                       /\ IF Len(csvRows[k]) >= 3
                          THEN Unquoted(urls[Rank(k)].description, csvRows[k][3])
                          ELSE urls[Rank(k)].description = <<>>

C10_Witness ==
    /\ pc = "csv_done"
    /\ csvErrAt = 0
    /\ Len(csvRows) = 2
    /\ Len(csvRows[1]) = 1
    /\ Len(csvRows[2]) = 3
    /\ csvRows[2][1] = <<Quote, "a", Quote>>
    /\ urls = << [video_id |-> <<"a">>, url |-> <<"b">>, description |-> <<"c">>] >>

====
